---- MODULE Spec2Model ----
(***************************************************************************)
(* Rule-based document classifier (classify2.py): text normalisation,      *)
(* rule loading, per-term matching, category scoring and the AUTO/REVIEW   *)
(* decision of the batch loop.                                             *)
(*                                                                         *)
(* A Python str is modelled as a sequence of characters; a character is a  *)
(* TLA+ string.  ASCII characters stand for themselves; the others carry   *)
(* a name (LF, NBSP, ZWSP, COMB_ACUTE = U+0301, e_acute = U+00E9, ...).    *)
(***************************************************************************)
EXTENDS Integers, Sequences, FiniteSets, TLC

VARIABLES
    pc,          \* position of the running procedure
    rule_lines,  \* rules.txt, as the list of its lines (read_text().splitlines())
    rules,       \* dict category -> terms, as the list of its items in dict order
    n_rows,      \* number of rows of the manifest
    idx,         \* number of manifest rows already handled by the loop of main
    text,        \* the text of the document (or argument) being handled
    term,        \* the term handed to term_match_count
    ret,         \* the values returned so far by the function under test
    out_rows,    \* main: the records appended so far
    auto,        \* main: counter
    review,      \* main: counter
    no_text,     \* main: counter
    files        \* which of manifest.csv and rules.txt exist

vars ==
    <<pc, rule_lines, rules, n_rows, idx, text, term, ret, out_rows, auto, review, no_text, files>>

----------------------------------------------------------------------------
(* Characters *)

SP == " "
LF == "LF"
TAB == "TAB"
NBSP == "NBSP"
BOM == "BOM"
SHY == "SHY"
ZWSP == "ZWSP"
ZWNJ == "ZWNJ"
ZWJ == "ZWJ"
COMB == "COMB_ACUTE"
HYPHEN == "-"
DQ == "DQUOTE"
SQ == "'"
BSLASH == "BACKSLASH"

\* str.isspace(), which both str.strip() and the regex class \s use
IsSpace(c) == c \in {SP, LF, TAB, NBSP}

\* Primary composites of a base letter and U+0301, for the letters of the model
ComposeTable ==
    ("a" :> "a_acute") @@ ("A" :> "A_acute") @@ ("c" :> "c_acute") @@
    ("e" :> "e_acute") @@ ("i" :> "i_acute") @@ ("l" :> "l_acute") @@
    ("n" :> "n_acute") @@ ("r" :> "r_acute")

Composites == {ComposeTable[b] : b \in DOMAIN ComposeTable}

BaseOf(c) == CHOOSE b \in DOMAIN ComposeTable : ComposeTable[b] = c

\* str.casefold() on the characters of the model
CaseFoldChar(c) ==
    CASE c = "A" -> "a"
      [] c = "A_acute" -> "a_acute"
      [] OTHER -> c

----------------------------------------------------------------------------
(* Python str helpers *)

\* the element of a one-element set; TheOne({e(v) : v \in {x}}) is e with a
\* local variable v holding the value of x
TheOne(S) == CHOOSE y \in S : TRUE

Last(s) == s[Len(s)]

RECURSIVE Flatten(_)
Flatten(ss) == IF ss = <<>> THEN <<>> ELSE Head(ss) \o Flatten(Tail(ss))

RECURSIVE lstrip(_)
lstrip(s) == IF s # <<>> /\ IsSpace(Head(s)) THEN lstrip(Tail(s)) ELSE s

RECURSIVE rstrip(_)
rstrip(s) == IF s # <<>> /\ IsSpace(Last(s)) THEN rstrip(SubSeq(s, 1, Len(s) - 1)) ELSE s

strip(s) == rstrip(lstrip(s))

startswith(s, p) == Len(s) >= Len(p) /\ SubSeq(s, 1, Len(p)) = p

endswith(s, p) == Len(s) >= Len(p) /\ SubSeq(s, Len(s) - Len(p) + 1, Len(s)) = p

\* s.replace(c, "") for a one-character c
remove_char(s, c) == SelectSeq(s, LAMBDA x : x # c)

\* s.replace(c, d) for one-character c and d
replace_char(s, c, d) == [k \in 1..Len(s) |-> IF s[k] = c THEN d ELSE s[k]]

\* index of the first c in s, 0 when there is none
RECURSIVE find_from(_, _, _)
find_from(s, c, k) ==
    IF k > Len(s) THEN 0 ELSE IF s[k] = c THEN k ELSE find_from(s, c, k + 1)

find(s, c) == find_from(s, c, 1)

\* s.split(c) for a one-character separator
RECURSIVE split(_, _)
split(s, c) ==
    LET k == find(s, c)
    IN  IF k = 0 THEN <<s>>
        ELSE <<SubSeq(s, 1, k - 1)>> \o split(SubSeq(s, k + 1, Len(s)), c)

\* s.count(n): non-overlapping occurrences, scanned left to right (n non-empty)
RECURSIVE count_from(_, _, _)
count_from(s, n, k) ==
    IF k + Len(n) - 1 > Len(s) THEN 0
    ELSE IF SubSeq(s, k, k + Len(n) - 1) = n THEN 1 + count_from(s, n, k + Len(n))
    ELSE count_from(s, n, k + 1)

str_count(s, n) == count_from(s, n, 1)

\* str(n) for n >= 0
Digit(d) == <<"0", "1", "2", "3", "4", "5", "6", "7", "8", "9">>[d + 1]

RECURSIVE int_str(_)
int_str(n) == IF n < 10 THEN <<Digit(n)>> ELSE int_str(n \div 10) \o <<Digit(n % 10)>>

\* sep.join(parts)
RECURSIVE join(_, _)
join(sep, parts) ==
    IF parts = <<>> THEN <<>>
    ELSE IF Len(parts) = 1 THEN parts[1]
    ELSE parts[1] \o sep \o join(sep, Tail(parts))

----------------------------------------------------------------------------
(* Normalisation *)

\* compatibility/canonical decomposition of one character
DecomposeChar(c) ==
    IF c = NBSP THEN <<SP>>
    ELSE IF c \in Composites THEN <<BaseOf(c), COMB>>
    ELSE <<c>>

NFKD(s) == Flatten([k \in 1..Len(s) |-> DecomposeChar(s[k])])

\* canonical composition: a combining acute joins the starter right before it
RECURSIVE ComposeInto(_, _)
ComposeInto(out, s) ==
    IF s = <<>> THEN out
    ELSE IF Head(s) = COMB /\ out # <<>> /\ Last(out) \in DOMAIN ComposeTable
         THEN ComposeInto(SubSeq(out, 1, Len(out) - 1) \o <<ComposeTable[Last(out)]>>, Tail(s))
         ELSE ComposeInto(Append(out, Head(s)), Tail(s))

NFKC(s) == ComposeInto(<<>>, NFKD(s))

\* re.sub(r"-\s+", "", s)
RECURSIVE skip_spaces(_, _)
skip_spaces(s, k) == IF k <= Len(s) /\ IsSpace(s[k]) THEN skip_spaces(s, k + 1) ELSE k

RECURSIVE dehyphenate_from(_, _)
dehyphenate_from(s, k) ==
    IF k > Len(s) THEN <<>>
    ELSE IF s[k] = HYPHEN /\ k < Len(s) /\ IsSpace(s[k + 1])
         THEN dehyphenate_from(s, skip_spaces(s, k + 1))
         ELSE <<s[k]>> \o dehyphenate_from(s, k + 1)

dehyphenate(s) == dehyphenate_from(s, 1)

\* re.sub(r"\s+", " ", s)
RECURSIVE collapse_from(_, _)
collapse_from(s, k) ==
    IF k > Len(s) THEN <<>>
    ELSE IF IsSpace(s[k]) THEN <<SP>> \o collapse_from(s, skip_spaces(s, k))
    ELSE <<s[k]>> \o collapse_from(s, k + 1)

collapse_ws(s) == collapse_from(s, 1)

clean_unicode_common(s) ==
    LET s1 == NFKC(s)
        s2 == remove_char(s1, BOM)
        s3 == remove_char(s2, SHY)
        s4 == remove_char(s3, ZWSP)
        s5 == remove_char(s4, ZWNJ)
        s6 == remove_char(s5, ZWJ)
        s7 == replace_char(s6, NBSP, SP)
        s8 == dehyphenate(s7)
    IN  strip(collapse_ws(s8))

strip_accents(s) == SelectSeq(NFKD(s), LAMBDA c : c # COMB)

casefold_str(s) == [k \in 1..Len(s) |-> CaseFoldChar(s[k])]

normalize(s, casefold, strip_acc) ==
    LET s1 == clean_unicode_common(s)
        s2 == IF casefold THEN casefold_str(s1) ELSE s1
    IN  IF strip_acc THEN strip_accents(s2) ELSE s2

----------------------------------------------------------------------------
(* Normaliser applied repeatedly *)

MaxCleanLen == 3

CleanAlphabet == {"e", "e_acute", COMB, ZWSP, SHY, HYPHEN, SP, LF, NBSP}

RECURSIVE SeqsUpTo(_, _)
SeqsUpTo(S, n) ==
    IF n = 0 THEN {<<>>}
    ELSE LET shorter == SeqsUpTo(S, n - 1)
         IN  shorter \cup {Append(s, c) : s \in {t \in shorter : Len(t) = n - 1}, c \in S}

InitClean ==
    /\ pc = "clean"
    /\ text \in SeqsUpTo(CleanAlphabet, MaxCleanLen)
    /\ ret = <<>>
    /\ rule_lines = <<>> /\ rules = <<>> /\ n_rows = 0 /\ idx = 0 /\ term = <<>>
    /\ out_rows = <<>> /\ auto = 0 /\ review = 0 /\ no_text = 0
    /\ files = [manifest |-> TRUE, rules |-> TRUE]

\* clean(t), then clean of the result
CleanAgain ==
    /\ pc = "clean"
    /\ Len(ret) < 2
    /\ ret' = Append(ret, clean_unicode_common(IF ret = <<>> THEN text ELSE Last(ret)))
    /\ UNCHANGED <<pc, rule_lines, rules, n_rows, idx, text, term, out_rows, auto, review, no_text, files>>

NextClean == CleanAgain

SpecClean == InitClean /\ [][NextClean]_vars

\* C8: the baseline normaliser is idempotent, clean(clean(t)) = clean(t)
C8_CleanIdempotent == (pc = "clean" /\ Len(ret) = 2) => ret[2] = ret[1]

----------------------------------------------------------------------------
(* Rules *)

\* variant: a repeated category keeps its first terms and gains the new ones
dict_set_merge(d, cat, terms) ==
    IF \E k \in 1..Len(d) : d[k].cat = cat
    THEN [k \in 1..Len(d) |->
            IF d[k].cat = cat THEN [cat |-> cat, terms |-> d[k].terms \o terms] ELSE d[k]]
    ELSE Append(d, [cat |-> cat, terms |-> terms])

\* rules[cat] = terms on a dict kept as the list of its items: an existing key
\* keeps its place and takes the new value, a new key goes to the end
dict_set(d, cat, terms) ==
    IF \E k \in 1..Len(d) : d[k].cat = cat
    THEN [k \in 1..Len(d) |-> IF d[k].cat = cat THEN [cat |-> cat, terms |-> terms] ELSE d[k]]
    ELSE Append(d, [cat |-> cat, terms |-> terms])

\* the loop body's guards: the stripped line is kept unless blank, a comment,
\* or without ":"
line_skipped(raw) ==
    LET line == strip(raw)
    IN  line = <<>> \/ startswith(line, <<"#">>) \/ find(line, ":") = 0

\* cat, rest = line.split(":", 1); cat = cat.strip()
line_cat(raw) ==
    LET line == strip(raw)
    IN  strip(SubSeq(line, 1, find(line, ":") - 1))

\* terms = [t.strip() for t in rest.split(";") if t.strip()]
line_terms(raw) ==
    LET line == strip(raw)
        rest == SubSeq(line, find(line, ":") + 1, Len(line))
        parts == split(rest, ";")
        stripped == [k \in 1..Len(parts) |-> strip(parts[k])]
    IN  SelectSeq(stripped, LAMBDA t : t # <<>>)

RECURSIVE load_rules_from(_, _)
load_rules_from(d, lines) ==
    IF lines = <<>> THEN d
    ELSE IF line_skipped(Head(lines)) THEN load_rules_from(d, Tail(lines))
    ELSE TheOne({ load_rules_from(d2, Tail(lines)) :
                  d2 \in {dict_set(d, line_cat(Head(lines)), line_terms(Head(lines)))} })

load_rules(lines) == load_rules_from(<<>>, lines)

----------------------------------------------------------------------------
(* Matching one term *)

PrefixReI == <<"r", "e", "/", "i", ":">>
PrefixRe == <<"r", "e", ":">>
PrefixCi == <<"c", "i", ":">>
PrefixNa == <<"n", "a", ":">>
PrefixLit == <<"l", "i", "t", ":">>

drop(s, n) == SubSeq(s, n + 1, Len(s))

parse_term(raw) ==
    LET t == strip(raw)
    IN  IF startswith(t, PrefixReI) THEN [mode |-> "re_i", payload |-> strip(drop(t, 5))]
        ELSE IF startswith(t, PrefixRe) THEN [mode |-> "re", payload |-> strip(drop(t, 3))]
        ELSE IF startswith(t, PrefixCi) THEN [mode |-> "ci", payload |-> strip(drop(t, 3))]
        ELSE IF startswith(t, PrefixNa) THEN [mode |-> "na", payload |-> strip(drop(t, 3))]
        ELSE IF startswith(t, PrefixLit) THEN [mode |-> "lit", payload |-> strip(drop(t, 4))]
        ELSE [mode |-> "lit", payload |-> t]

\* variant: only double quotes are removed
unquote_double_only(raw) ==
    LET t == strip(raw)
    IN  IF startswith(t, <<DQ>>) /\ endswith(t, <<DQ>>)
        THEN SubSeq(t, 2, Len(t) - 1)
        ELSE t

\* t[1:-1] when t starts and ends with the same kind of quote
unquote_if_needed(raw) ==
    LET t == strip(raw)
    IN  IF \/ (startswith(t, <<DQ>>) /\ endswith(t, <<DQ>>))
           \/ (startswith(t, <<SQ>>) /\ endswith(t, <<SQ>>))
        THEN SubSeq(t, 2, Len(t) - 1)
        ELSE t

count_literal(txt, needle, casefold, strip_acc) ==
    LET tn == normalize(txt, casefold, strip_acc)
        nn == normalize(needle, casefold, strip_acc)
    IN  IF nn = <<>> THEN 0 ELSE str_count(tn, nn)

\* re.compile(pattern) raises re.error: of the characters of the model only
\* "[" is a regex operator, and it opens a character set that nothing closes
re_error(pattern) == find(pattern, "[") # 0

\* re.IGNORECASE compares the characters' lower-case forms
lower_str(s) == [k \in 1..Len(s) |-> CaseFoldChar(s[k])]

\* re.findall(pattern, txt, flags): either raises re.error or returns the
\* non-overlapping matches, whose number is all the callers use; a pattern
\* that compiles is, in the model, a run of literal characters
re_findall(pattern, txt, ignore_case) ==
    IF re_error(pattern) THEN [raised |-> TRUE, matches |-> 0]
    ELSE [raised |-> FALSE,
          matches |-> IF ignore_case THEN str_count(lower_str(txt), lower_str(pattern))
                      ELSE str_count(txt, pattern)]

\* variant: a pattern that does not compile is counted as a literal
count_regex_literal_fallback(txt, pattern, ignore_case) ==
    IF pattern = <<>> THEN 0
    ELSE LET r == re_findall(pattern, txt, ignore_case)
         IN  IF r.raised THEN str_count(txt, pattern) ELSE r.matches

count_regex(txt, pattern, ignore_case) ==
    IF pattern = <<>> THEN 0
    ELSE LET r == re_findall(pattern, txt, ignore_case)
         IN  IF r.raised THEN 0 ELSE r.matches

\* the dispatch of term_match_count on the mode, once the payload is unquoted
count_payload(mode, txt, payload) ==
    IF mode = "re" THEN count_regex(clean_unicode_common(txt), payload, FALSE)
    ELSE IF mode = "re_i" THEN count_regex(clean_unicode_common(txt), payload, TRUE)
    ELSE IF mode = "ci" THEN count_literal(txt, payload, TRUE, FALSE)
    ELSE IF mode = "na" THEN count_literal(txt, payload, TRUE, TRUE)
    ELSE LET t == clean_unicode_common(txt)
             n == clean_unicode_common(payload)
         IN  IF n = <<>> THEN 0 ELSE str_count(t, n)

term_match_count(txt, raw) ==
    LET pt == parse_term(raw)
    IN  count_payload(pt.mode, txt, unquote_if_needed(pt.payload))

----------------------------------------------------------------------------
(* Scoring *)

UNKNOWN == <<"U", "N", "K", "N", "O", "W", "N">>

\* f"{term}({c})"
format_hit(h) == h.term \o <<"(">> \o int_str(h.count) \o <<")">>

\* the inner loop of best_two_categories over the terms of one category
\* variant: a matching term adds 1 to the score, whatever its count
score_step_counts_terms(acc, t, c) ==
    IF c > 0
    THEN [score |-> acc.score + 1,
          hits_parts |-> Append(acc.hits_parts, [term |-> t, count |-> c])]
    ELSE acc

\* one pass of the inner loop of best_two_categories: c is the term's count
score_step(acc, t, c) ==
    IF c > 0
    THEN [score |-> acc.score + c,
          hits_parts |-> Append(acc.hits_parts, [term |-> t, count |-> c])]
    ELSE acc

\* the inner loop of best_two_categories over the terms of one category
RECURSIVE score_terms(_, _, _)
score_terms(acc, txt, terms) ==
    IF terms = <<>> THEN acc
    ELSE TheOne({ TheOne({ score_terms(acc2, txt, Tail(terms)) :
                             acc2 \in {score_step(acc, Head(terms), c)} }) :
                  c \in {term_match_count(txt, Head(terms))} })

score_category(txt, item) ==
    TheOne({ [cat |-> item.cat, score |-> r.score, hits_parts |-> r.hits_parts,
              hits |-> join(<<",", SP>>,
                            [k \in 1..Len(r.hits_parts) |-> format_hit(r.hits_parts[k])])] :
             r \in {score_terms([score |-> 0, hits_parts |-> <<>>], txt, item.terms)} })

\* scored, before it is sorted
score_all(txt, d) == [k \in 1..Len(d) |-> score_category(txt, d[k])]

\* variant: a sort that puts the later of two equal scores first
RECURSIVE insert_desc_ties_reversed(_, _)
insert_desc_ties_reversed(sorted, x) ==
    IF sorted = <<>> THEN <<x>>
    ELSE IF Head(sorted).score > x.score
         THEN <<Head(sorted)>> \o insert_desc_ties_reversed(Tail(sorted), x)
    ELSE <<x>> \o sorted

\* scored.sort(key=score, reverse=True): stable, equal scores keep their order
RECURSIVE insert_desc(_, _)
insert_desc(sorted, x) ==
    IF sorted = <<>> THEN <<x>>
    ELSE IF Head(sorted).score >= x.score THEN <<Head(sorted)>> \o insert_desc(Tail(sorted), x)
    ELSE <<x>> \o sorted

RECURSIVE sort_desc_into(_, _)
sort_desc_into(sorted, rest) ==
    IF rest = <<>> THEN sorted
    ELSE TheOne({ sort_desc_into(s, Tail(rest)) : s \in {insert_desc(sorted, Head(rest))} })

sort_desc(scored) == TheOne({ sort_desc_into(<<>>, s) : s \in {scored} })

NoCategory == [cat |-> UNKNOWN, score |-> 0, hits_parts |-> <<>>, hits |-> <<>>]

best_two_categories(txt, d) ==
    TheOne({ [top1 |-> IF Len(scored) > 0 THEN scored[1] ELSE NoCategory,
              top2 |-> IF Len(scored) > 1 THEN scored[2] ELSE NoCategory] :
             scored \in {sort_desc(score_all(txt, d))} })

----------------------------------------------------------------------------
(* main *)

DEFAULT_AUTO_THRESHOLD == 2
DEFAULT_REVIEW_GAP == 1

MaxMainLines == 3
MaxRows == 2

MainLineCatalog ==
    { <<"A", ":", "c", "i", ":", "a">>,
      <<"B", ":", "a", ";", "e">>,
      <<"A", ":", "r", "e", ":", "[", "a", ";", "n", "a", ":", "e">>,
      <<"U", "N", "K", "N", "O", "W", "N", ":", "c", "i", ":", "a", ";", "c", "i", ":", "e">> }

\* what output/text/<name>.txt may hold; <<>> also stands for a missing file
DocTexts ==
    { <<>>,
      <<SP, LF>>,
      <<"a", SP, "A">>,
      <<"A", SP, "A">>,
      <<"A", SP, "a", SP, "A", SP, "e">>,
      <<"e_acute">> }

\* variant: only the empty text counts as blank
is_blank_empty_only(t) == t = <<>>

\* not text.strip()
is_blank(t) == strip(t) = <<>>

\* variant: a lead equal to the margin is enough
is_auto_margin_ge(s1, s2, c1) ==
    /\ s1 >= DEFAULT_AUTO_THRESHOLD
    /\ (s1 - s2) >= DEFAULT_REVIEW_GAP
    /\ c1 # UNKNOWN

\* the condition of the decision: threshold, margin over the runner-up, label
is_auto(s1, s2, c1) ==
    /\ s1 >= DEFAULT_AUTO_THRESHOLD
    /\ (s1 - s2) > DEFAULT_REVIEW_GAP
    /\ c1 # UNKNOWN

\* the longest file name the file system accepts
NAME_MAX == 255

\* s.replace("/", "__").replace("\\", "__"), by halves
RECURSIVE replace_separators(_)
replace_separators(s) ==
    IF s = <<>> THEN <<>>
    ELSE IF Len(s) = 1 THEN (IF s[1] \in {"/", BSLASH} THEN <<"_", "_">> ELSE s)
    ELSE replace_separators(SubSeq(s, 1, Len(s) \div 2))
             \o replace_separators(SubSeq(s, (Len(s) \div 2) + 1, Len(s)))

\* relpath.replace("/", "__").replace("\\", "__") + ".txt"
safe_name(relpath) == replace_separators(relpath) \o <<".", "t", "x", "t">>

\* the rows csv.DictReader yields: a line with fewer fields than the header
\* has None for the missing ones (has_relpath FALSE); a relpath may be a deep
\* path whose flattened name is longer than NAME_MAX
ManifestRows ==
    { [has_relpath |-> TRUE, relpath |-> <<"d", "/", "a", ".", "p", "d", "f">>],
      [has_relpath |-> TRUE, relpath |-> <<"d", BSLASH, "a">>],
      [has_relpath |-> TRUE, relpath |-> [k \in 1..NAME_MAX |-> IF k % 2 = 0 THEN "/" ELSE "d"]],
      [has_relpath |-> FALSE, relpath |-> <<>>] }

\* what rel = r["relpath"]; text_path = TEXT_DIR / safe_name(rel);
\* text_path.exists() can do: None has no replace (AttributeError); for a name
\* longer than NAME_MAX exists() raises OSError or answers False, depending on
\* the interpreter; otherwise the file is there or not
lookup_outcomes(r) ==
    IF ~r.has_relpath THEN {"raises"}
    ELSE IF Len(safe_name(r.relpath)) > NAME_MAX THEN {"raises", "missing"}
    ELSE {"missing", "found"}

\* the texts a row can come with: "" when the file is missing, else its content
row_texts(r) ==
    (IF "found" \in lookup_outcomes(r) THEN DocTexts ELSE {})
        \cup (IF "missing" \in lookup_outcomes(r) THEN {<<>>} ELSE {})

\* the rows whose lookup can raise, and the texts the other lookups can give
RaisingRows == { r \in ManifestRows : "raises" \in lookup_outcomes(r) }

LoopTexts == UNION { row_texts(r) : r \in ManifestRows }

\* a missing file has no content: no rule lines, no manifest rows
Init ==
    /\ pc = "start"
    /\ files \in [manifest : BOOLEAN, rules : BOOLEAN]
    /\ rule_lines \in IF files.rules THEN SeqsUpTo(MainLineCatalog, MaxMainLines) ELSE {<<>>}
    /\ n_rows \in IF files.manifest THEN 0..MaxRows ELSE {0}
    /\ rules = <<>> /\ idx = 0 /\ text = <<>> /\ term = <<>> /\ ret = <<>>
    /\ out_rows = <<>> /\ auto = 0 /\ review = 0 /\ no_text = 0

\* if not MANIFEST.exists(): raise SystemExit
NoManifest ==
    /\ pc = "start"
    /\ ~files.manifest
    /\ pc' = "exit"
    /\ UNCHANGED <<rule_lines, rules, n_rows, idx, text, term, ret, out_rows, auto, review, no_text, files>>

\* if not RULES_FILE.exists(): raise SystemExit
NoRulesFile ==
    /\ pc = "start"
    /\ files.manifest /\ ~files.rules
    /\ pc' = "exit"
    /\ UNCHANGED <<rule_lines, rules, n_rows, idx, text, term, ret, out_rows, auto, review, no_text, files>>

\* rules = load_rules(RULES_FILE); if not rules: raise SystemExit
NoRules ==
    /\ pc = "start"
    /\ files.manifest /\ files.rules
    /\ load_rules(rule_lines) = <<>>
    /\ rules' = <<>>
    /\ pc' = "exit"
    /\ UNCHANGED <<rule_lines, n_rows, idx, text, term, ret, out_rows, auto, review, no_text, files>>

\* rules loaded, manifest rows read, counters set to 0
Start ==
    /\ pc = "start"
    /\ files.manifest /\ files.rules
    /\ \E loaded \in {load_rules(rule_lines)} :
         /\ loaded # <<>>
         /\ rules' = loaded
    /\ pc' = "loop"
    /\ UNCHANGED <<rule_lines, n_rows, idx, text, term, ret, out_rows, auto, review, no_text, files>>

\* one pass of the loop for a row whose lookup raises: nothing catches the
\* exception, the run ends without a record for the row and without classified.csv
RowRaises ==
    /\ pc = "loop"
    /\ idx < n_rows
    /\ RaisingRows # {}
    /\ pc' = "crashed"
    /\ UNCHANGED <<rule_lines, rules, n_rows, idx, text, term, ret, out_rows, auto, review, no_text, files>>

\* one pass of the loop for a row whose text is blank
RowNoText ==
    /\ pc = "loop"
    /\ idx < n_rows
    /\ \E t \in LoopTexts :
         /\ is_blank(t)
         /\ text' = t
         /\ no_text' = no_text + 1
         /\ out_rows' = Append(out_rows,
                [row |-> idx + 1, label |-> <<"N", "O", "_", "T", "E", "X", "T">>,
                 score |-> <<"0">>, hits |-> <<>>, top2_label |-> <<>>,
                 top2_score |-> <<>>, decision |-> "NEEDS_OCR_OR_BETTER_EXTRACT"])
    /\ idx' = idx + 1
    /\ ret' = <<>>
    /\ UNCHANGED <<pc, rule_lines, rules, n_rows, term, auto, review, files>>

\* one pass of the loop for a row with text: scoring and decision
RowClassify ==
    /\ pc = "loop"
    /\ idx < n_rows
    /\ \E t \in LoopTexts :
         /\ ~is_blank(t)
         /\ text' = t
         /\ \E best \in {best_two_categories(t, rules)} :
            LET s1 == best.top1.score
                s2 == best.top2.score
                decided_auto == is_auto(s1, s2, best.top1.cat)
            IN  /\ ret' = <<best>>
                /\ auto' = IF decided_auto THEN auto + 1 ELSE auto
                /\ review' = IF decided_auto THEN review ELSE review + 1
                /\ out_rows' = Append(out_rows,
                       [row |-> idx + 1, label |-> best.top1.cat,
                        score |-> int_str(s1), hits |-> best.top1.hits,
                        top2_label |-> best.top2.cat, top2_score |-> int_str(s2),
                        decision |-> IF decided_auto THEN "AUTO" ELSE "REVIEW"])
    /\ idx' = idx + 1
    /\ UNCHANGED <<pc, rule_lines, rules, n_rows, term, no_text, files>>

\* the loop is over: classified.csv is written
WriteOut ==
    /\ pc = "loop"
    /\ idx = n_rows
    /\ pc' = "written"
    /\ UNCHANGED <<rule_lines, rules, n_rows, idx, text, term, ret, out_rows, auto, review, no_text, files>>

Next ==
    \/ NoManifest \/ NoRulesFile \/ NoRules \/ Start
    \/ RowRaises \/ RowNoText \/ RowClassify \/ WriteOut

Spec == Init /\ [][Next]_vars

\* the loop has just handled a row, and text is the text of that row
RowHandled == out_rows # <<>> /\ pc = "loop"

AllSpace(t) == \A k \in 1..Len(t) : IsSpace(t[k])

\* C1: a document with text is decided AUTO exactly when the top score reaches
\* the threshold, leads the second score by more than the margin and the top
\* category is not UNKNOWN, and REVIEW otherwise; with the defaults a score of
\* 2 with a lead of 1, and any tie, give REVIEW
C1_AutoIffThresholdAndMargin ==
    (RowHandled /\ ~AllSpace(text)) =>
        /\ Len(ret) = 1
        /\ LET s1 == ret[1].top1.score
               s2 == ret[1].top2.score
               decision == Last(out_rows).decision
           IN  /\ decision \in {"AUTO", "REVIEW"}
               /\ decision = "AUTO" <=>
                     (s1 >= 2 /\ s1 - s2 > 1 /\ ret[1].top1.cat # UNKNOWN)
               /\ (s1 = 2 /\ s1 - s2 = 1) => decision = "REVIEW"
               /\ s1 = s2 => decision = "REVIEW"

\* a document whose top score is the threshold, one point ahead, was sent to review
C1_Witness ==
    /\ RowHandled /\ ~AllSpace(text) /\ Len(ret) = 1
    /\ ret[1].top1.score = 2 /\ ret[1].top2.score = 1
    /\ Last(out_rows).decision = "REVIEW"

\* C2: a document whose text is empty or all whitespace gets
\* NEEDS_OCR_OR_BETTER_EXTRACT with score 0 and no hits, without any scoring,
\* and counts neither as AUTO nor as REVIEW
C2_BlankTextNeedsOcr ==
    (RowHandled /\ AllSpace(text)) =>
        /\ Last(out_rows).decision = "NEEDS_OCR_OR_BETTER_EXTRACT"
        /\ Last(out_rows).score = <<"0">>
        /\ Last(out_rows).hits = <<>>
        /\ ret = <<>>
        /\ no_text >= 1
        /\ auto + review < Len(out_rows)

\* a whitespace-only document was handled under rules that match nothing blank
C2_Witness ==
    /\ RowHandled /\ text = <<SP, LF>> /\ Len(rules) >= 2
    /\ Last(out_rows).decision = "NEEDS_OCR_OR_BETTER_EXTRACT"

\* the first line of the rule definition that defines the category
FirstLine(cat) ==
    CHOOSE k \in 1..Len(rule_lines) :
        /\ ~line_skipped(rule_lines[k]) /\ line_cat(rule_lines[k]) = cat
        /\ \A j \in 1..(k - 1) :
             line_skipped(rule_lines[j]) \/ line_cat(rule_lines[j]) # cat

\* a ranks before b: higher score, or equal score and defined earlier
RanksBefore(a, b) ==
    \/ a.score > b.score
    \/ a.score = b.score /\ FirstLine(a.cat) < FirstLine(b.cat)

\* C3: top1 and top2 are the first two of all the categories ordered by
\* descending score, equal scores in the order of definition
C3_TopTwoStableOrder ==
    (RowHandled /\ Len(ret) = 1 /\ Len(rules) >= 2) =>
        LET all == score_all(text, rules)
            top1 == ret[1].top1
            top2 == ret[1].top2
        IN  /\ \E p1, p2 \in 1..Len(all) : p1 # p2 /\ all[p1] = top1 /\ all[p2] = top2
            /\ \A k \in 1..Len(all) : all[k].cat # top1.cat => RanksBefore(top1, all[k])
            /\ \A k \in 1..Len(all) :
                 all[k].cat \notin {top1.cat, top2.cat} => RanksBefore(top2, all[k])

\* three categories, the two defined last tie for the top score
C3_Witness ==
    /\ RowHandled /\ Len(ret) = 1 /\ Len(rules) = 3
    /\ ret[1].top1.score = ret[1].top2.score
    /\ ret[1].top1.score > score_all(text, rules)[1].score
    /\ ret[1].top1.cat = rules[2].cat

\* C4: when no term of any category matches a document with text, the
\* reported winner is UNKNOWN with score 0
C4_NoMatchGivesUnknown ==
    (/\ RowHandled /\ Len(ret) = 1
     /\ \A k \in 1..Len(rules) : score_all(text, rules)[k].score = 0)
    => (Last(out_rows).label = UNKNOWN /\ Last(out_rows).score = <<"0">>)

RECURSIVE SumSeq(_)
SumSeq(ns) == IF ns = <<>> THEN 0 ELSE Head(ns) + SumSeq(Tail(ns))

\* the terms of a category paired with their counts in a text
TermCounts(txt, terms) ==
    [k \in 1..Len(terms) |-> [term |-> terms[k], count |-> term_match_count(txt, terms[k])]]

\* C10: a category's score is the sum of its terms' counts, its hits are the
\* terms counted above 0 with their counts, in the order of the terms; so the
\* score is the sum of the hits' counts, and is 0 exactly when there are no hits
C10_ScoreIsSumOfHits ==
    (RowHandled /\ Len(ret) = 1) =>
        LET all == score_all(text, rules)
        IN  /\ {ret[1].top1, ret[1].top2} \subseteq {all[k] : k \in 1..Len(all)} \cup {NoCategory}
            /\ \A k \in 1..Len(all) :
                 LET tc == TermCounts(text, rules[k].terms)
                     hp == all[k].hits_parts
                 IN  /\ all[k].score \in Nat
                     /\ all[k].score = SumSeq([j \in 1..Len(tc) |-> tc[j].count])
                     /\ hp = SelectSeq(tc, LAMBDA h : h.count > 0)
                     /\ all[k].score = SumSeq([j \in 1..Len(hp) |-> hp[j].count])
                     /\ all[k].score = 0 <=> hp = <<>>
                     /\ all[k].hits = <<>> <=> hp = <<>>

\* the winning category has two hits and a score above 3
C10_Witness ==
    /\ RowHandled /\ Len(ret) = 1
    /\ Len(ret[1].top1.hits_parts) = 2
    /\ ret[1].top1.score > 3
    /\ Len(ret[1].top2.hits_parts) < 2

\* manifest.csv present, rules.txt present and yielding at least one category
RunPreconditions ==
    /\ files.manifest /\ files.rules
    /\ load_rules(rule_lines) # <<>>

Decisions == {"AUTO", "REVIEW", "NEEDS_OCR_OR_BETTER_EXTRACT"}

\* one record per processed row, in the order of the rows, each with one of
\* the three decisions, and the counters add up to the rows processed
RecordsMatchProcessed ==
    /\ Len(out_rows) = idx
    /\ \A k \in 1..Len(out_rows) :
         /\ out_rows[k].row = k
         /\ out_rows[k].decision \in Decisions
    /\ auto + review + no_text = idx

\* C11: once the run-level preconditions hold (manifest present, rule file
\* present and yielding at least one category), no row halts the batch: the run
\* is at its start, in the loop or has written classified.csv after the last
\* row; and after any prefix of the rows there is exactly one record per
\* processed row, in row order, with a decision among AUTO, REVIEW and
\* NEEDS_OCR_OR_BETTER_EXTRACT, and auto + review + no_text = rows processed.
C11_BatchNeverHalts ==
    RunPreconditions =>
        /\ pc \in {"start", "loop", "written"}
        /\ pc = "written" => idx = n_rows
        /\ RecordsMatchProcessed


----------------------------------------------------------------------------
(* load_rules applied to a rule definition *)

MaxLines == 3

RuleLineCatalog ==
    { <<"A", ":", "a">>,
      <<"A", ":", "b", ";", "e">>,
      <<"A", ":">>,
      <<SP, "B", SP, ":", SP, "a", SP, ";", ";", SP>>,
      <<"B", ":", "c", "i", ":", "a">>,
      <<>>,
      <<SP, TAB>>,
      <<"#", "A", ":", "a">>,
      <<SP, "#">>,
      <<"a", ";", "b">>,
      <<":", "a">>,
      <<SP, ":", "b">> }

InitRules ==
    /\ pc = "rules"
    /\ rule_lines \in SeqsUpTo(RuleLineCatalog, MaxLines)
    /\ rules = <<>>
    /\ ret = <<>> /\ text = <<>> /\ n_rows = 0 /\ idx = 0 /\ term = <<>>
    /\ out_rows = <<>> /\ auto = 0 /\ review = 0 /\ no_text = 0
    /\ files = [manifest |-> TRUE, rules |-> TRUE]

LoadRules ==
    /\ pc = "rules"
    /\ rules' = load_rules(rule_lines)
    /\ pc' = "rules_loaded"
    /\ UNCHANGED <<rule_lines, n_rows, idx, text, term, ret, out_rows, auto, review, no_text, files>>

NextRules == LoadRules

SpecRules == InitRules /\ [][NextRules]_vars

\* the lines after position k that load_rules does not skip
LaterKept(k) == {j \in (k + 1)..Len(rule_lines) : ~line_skipped(rule_lines[j])}

\* C5: after load_rules the category names are unique, and a name given by
\* several loaded lines maps to exactly the terms of the last of them
C5_LastDefinitionWins ==
    pc = "rules_loaded" =>
        /\ \A j, k \in 1..Len(rules) : rules[j].cat = rules[k].cat => j = k
        /\ \A k \in 1..Len(rule_lines) :
             (/\ ~line_skipped(rule_lines[k])
              /\ \A j \in LaterKept(k) : line_cat(rule_lines[j]) # line_cat(rule_lines[k]))
             => \E m \in 1..Len(rules) :
                   /\ rules[m].cat = line_cat(rule_lines[k])
                   /\ rules[m].terms = line_terms(rule_lines[k])

\* a rule definition that names one category twice with different terms was loaded
C5_Witness ==
    /\ pc = "rules_loaded"
    /\ \E j, k \in 1..Len(rule_lines) :
         /\ j < k
         /\ ~line_skipped(rule_lines[j]) /\ ~line_skipped(rule_lines[k])
         /\ line_cat(rule_lines[j]) = line_cat(rule_lines[k])
         /\ line_terms(rule_lines[j]) # line_terms(rule_lines[k])
         /\ line_terms(rule_lines[j]) # <<>>

\* what the rule format calls a malformed line: blank, a comment, without
\* ":", or with nothing but whitespace before the first ":"
Malformed(raw) ==
    LET line == strip(raw)
    IN  \/ line = <<>>
        \/ Head(line) = "#"
        \/ find(line, ":") = 0
        \/ strip(SubSeq(line, 1, find(line, ":") - 1)) = <<>>

\* C6: malformed lines add no category, and the categories of all the other
\* lines are loaded
C6_MalformedLinesSkipped ==
    pc = "rules_loaded" =>
        {rules[m].cat : m \in 1..Len(rules)} =
            {line_cat(rule_lines[k]) : k \in {j \in 1..Len(rule_lines) : ~Malformed(rule_lines[j])}}

----------------------------------------------------------------------------
(* term_match_count applied to one text and one term *)

TermPrefixes == {<<>>, PrefixReI, PrefixRe, PrefixCi, PrefixNa, PrefixLit, <<"l", "i", ":">>}

TermPayloads ==
    { <<"a">>, <<"A">>, <<"e">>, <<"e_acute">>, <<"[", "a">>, <<"a", SP, "e">>,
      <<SP, "a", SP>>, <<"c", "i", ":", "a">>, <<>> }

\* a payload as written in rules.txt: bare, in quotes, or with unmatched quotes
Quoted(p) == {p, <<SQ>> \o p \o <<SQ>>, <<DQ>> \o p \o <<DQ>>, <<DQ>> \o p \o <<SQ>>}

TermCatalog ==
    {pre \o gap \o q : pre \in TermPrefixes, gap \in {<<>>, <<SP>>},
                       q \in UNION {Quoted(p) : p \in TermPayloads}}

MatchTexts ==
    { <<"a", SP, "A", SP, "a">>,
      <<"e_acute", SP, "e", SP, "e", COMB>>,
      <<"[", "a", SP, DQ, "a", DQ, SP, SQ, "A", SQ>>,
      <<"a", HYPHEN, LF, "a", SP, TAB, "a", SP, "e">>,
      <<"c", "i", ":", "a", SP, "l", "i", ":", "a">>,
      <<"a", "a", "a">>,
      <<ZWSP>> }

InitTerm ==
    /\ pc = "term"
    /\ text \in MatchTexts
    /\ term \in TermCatalog
    /\ ret = <<>>
    /\ rule_lines = <<>> /\ rules = <<>> /\ n_rows = 0 /\ idx = 0
    /\ out_rows = <<>> /\ auto = 0 /\ review = 0 /\ no_text = 0
    /\ files = [manifest |-> TRUE, rules |-> TRUE]

MatchTerm ==
    /\ pc = "term"
    /\ ret' = <<[parsed |-> parse_term(term), count |-> term_match_count(text, term)]>>
    /\ pc' = "term_done"
    /\ UNCHANGED <<rule_lines, rules, n_rows, idx, text, term, out_rows, auto, review, no_text, files>>

NextTerm == MatchTerm

SpecTerm == InitTerm /\ [][NextTerm]_vars

DocumentedPrefix(t) ==
    IF startswith(t, PrefixReI) THEN [mode |-> "re_i", len |-> 5]
    ELSE IF startswith(t, PrefixRe) THEN [mode |-> "re", len |-> 3]
    ELSE IF startswith(t, PrefixCi) THEN [mode |-> "ci", len |-> 3]
    ELSE IF startswith(t, PrefixNa) THEN [mode |-> "na", len |-> 3]
    ELSE IF startswith(t, PrefixLit) THEN [mode |-> "lit", len |-> 4]
    ELSE [mode |-> "lit", len |-> 0]

\* a payload inside one pair of equal quotes
Wrapped(p) == Len(p) >= 2 /\ p[1] = p[Len(p)] /\ p[1] \in {SQ, DQ}

====
